---- MODULE Spec2Model ----
(***************************************************************************)
(* Model of browser_cleanup.py: BrowserProcessKiller.kill_browser_        *)
(* processes_only and main.                                                *)
(*                                                                         *)
(* str.lower(), ' '.join and the substring test `t in s` work on the       *)
(* characters of a string, as sequences of one-character strings, so that  *)
(* they are computed as the interpreter computes them.                     *)
(***************************************************************************)
EXTENDS Integers, Sequences, FiniteSets, TLC

\* Largest number of processes psutil.process_iter yields in one sweep.
MaxProcs == 2

-----------------------------------------------------------------------------
\* String literals of the source.

TOKEN_CHROME == <<"c", "h", "r", "o", "m", "e">>
TOKEN_GOOGLE_CHROME == <<"G", "o", "o", "g", "l", "e", " ", "C", "h", "r", "o", "m", "e">>
MARKER_PROFILE == <<"m", "c", "p", "-", "c", "h", "r", "o", "m", "e", "-", "p", "r", "o", "f", "i", "l", "e">>
TOKEN_NODE == <<"n", "o", "d", "e">>
MARKER_SERVER == <<"m", "c", "p", "-", "s", "e", "r", "v", "e", "r", "-", "p", "l", "a", "y", "w", "r", "i", "g", "h", "t">>
MARKER_PLAYWRIGHT == <<"p", "l", "a", "y", "w", "r", "i", "g", "h", "t">>

\* Python's None, where a str is expected and where a list is expected.  No
\* process of the pool below is named "None".
None == "None"
NoneList == <<None>>

-----------------------------------------------------------------------------
\* Built-in string operations.

UpperAlpha == <<"A", "B", "C", "D", "E", "F", "G", "H", "I", "J", "K", "L", "M", "N", "O", "P", "Q", "R", "S", "T", "U", "V", "W", "X", "Y", "Z">>
LowerAlpha == <<"a", "b", "c", "d", "e", "f", "g", "h", "i", "j", "k", "l", "m", "n", "o", "p", "q", "r", "s", "t", "u", "v", "w", "x", "y", "z">>

LowerChar(c) ==
  IF \E k \in 1..26 : UpperAlpha[k] = c
  THEN LowerAlpha[CHOOSE k \in 1..26 : UpperAlpha[k] = c]
  ELSE c

\* s.lower()
Lower(s) == [k \in 1..Len(s) |-> LowerChar(s[k])]

\* t in s
Contains(t, s) ==
  \E k \in 0..(Len(s) - Len(t)) : SubSeq(s, k + 1, k + Len(t)) = t

\* The characters of a string of the pool below.  A process name and an
\* argument are held as one value; the string operations work on characters.
Chars(s) ==
  CASE s = "chrome" ->
         <<"c", "h", "r", "o", "m", "e">>
    [] s = "Google Chrome" ->
         <<"G", "o", "o", "g", "l", "e", " ", "C", "h", "r", "o", "m", "e">>
    [] s = "node" ->
         <<"n", "o", "d", "e">>
    [] s = "Chrome-Node" ->
         <<"C", "h", "r", "o", "m", "e", "-", "N", "o", "d", "e">>
    [] s = "--user-data-dir=/tmp/mcp-chrome-profile-1" ->
         <<"-", "-", "u", "s", "e", "r", "-", "d", "a", "t", "a", "-", "d", "i", "r", "=", "/", "t", "m", "p", "/", "m", "c", "p", "-", "c", "h", "r", "o", "m", "e", "-", "p", "r", "o", "f", "i", "l", "e", "-", "1">>
    [] s = "--USER-DATA-DIR=/TMP/MCP-CHROME-PROFILE-1" ->
         <<"-", "-", "U", "S", "E", "R", "-", "D", "A", "T", "A", "-", "D", "I", "R", "=", "/", "T", "M", "P", "/", "M", "C", "P", "-", "C", "H", "R", "O", "M", "E", "-", "P", "R", "O", "F", "I", "L", "E", "-", "1">>
    [] s = "mcp-server-playwright" ->
         <<"m", "c", "p", "-", "s", "e", "r", "v", "e", "r", "-", "p", "l", "a", "y", "w", "r", "i", "g", "h", "t">>
    [] s = "npx" ->
         <<"n", "p", "x">>
    [] s = "playwright" ->
         <<"p", "l", "a", "y", "w", "r", "i", "g", "h", "t">>
    [] s = "--no-sandbox" ->
         <<"-", "-", "n", "o", "-", "s", "a", "n", "d", "b", "o", "x">>

\* ' '.join(args)
RECURSIVE Join(_)
Join(args) ==
  IF Len(args) = 0 THEN <<>>
  ELSE IF Len(args) = 1 THEN Chars(args[1])
  ELSE Chars(args[1]) \o <<" ">> \o Join(Tail(args))

\* ' '.join(proc.info['cmdline'] or [])
CmdlineText(cmdline) == IF cmdline = NoneList THEN Join(<<>>) ELSE Join(cmdline)

-----------------------------------------------------------------------------
\* Process records psutil.process_iter(['pid', 'name', 'cmdline']) can yield.
\* psutil reports an attribute it was refused (AccessDenied, ZombieProcess)
\* as None.

Names == {None, "chrome", "Google Chrome", "node", "Chrome-Node"}

Cmdlines ==
  { NoneList,
    <<"chrome", "--user-data-dir=/tmp/mcp-chrome-profile-1">>,
    <<"chrome", "--USER-DATA-DIR=/TMP/MCP-CHROME-PROFILE-1">>,
    <<"chrome", "--no-sandbox">>,
    <<"node", "mcp-server-playwright", "chrome">>,
    <<"npx", "playwright", "--user-data-dir=/tmp/mcp-chrome-profile-1">> }

Records == [name : Names, cmdline : Cmdlines]

-----------------------------------------------------------------------------
\* The two predicates and the kill condition of kill_browser_processes_only.

\* Mutant: the profile marker is not required.
is_playwright_chrome_AnyChrome(proc_name, cmdline) ==
  \/ Contains(TOKEN_CHROME, Lower(proc_name))
  \/ Contains(TOKEN_GOOGLE_CHROME, proc_name)

is_playwright_chrome(proc_name, cmdline) ==
  /\ \/ Contains(TOKEN_CHROME, Lower(proc_name))
     \/ Contains(TOKEN_GOOGLE_CHROME, proc_name)
  /\ Contains(MARKER_PROFILE, cmdline)

\* Mutant: the name is matched without .lower().
is_nodejs_server_NoLower(proc_name, cmdline) ==
  /\ Contains(TOKEN_NODE, proc_name)
  /\ \/ Contains(MARKER_SERVER, cmdline)
     \/ Contains(MARKER_PLAYWRIGHT, cmdline)

is_nodejs_server(proc_name, cmdline) ==
  /\ Contains(TOKEN_NODE, Lower(proc_name))
  /\ \/ Contains(MARKER_SERVER, cmdline)
     \/ Contains(MARKER_PLAYWRIGHT, cmdline)

\* Mutant: the server check does not veto the kill.
ShouldKill_NoVeto(proc_name, cmdline) == is_playwright_chrome(proc_name, cmdline)

\* if is_playwright_chrome and not is_nodejs_server:
ShouldKill(proc_name, cmdline) ==
  is_playwright_chrome(proc_name, cmdline) /\ ~is_nodejs_server(proc_name, cmdline)

\* Mutant: the dry-run flag is not consulted.
CallsKill_Always(dry) == TRUE

\* if not self.dry_run: proc.kill(); proc.wait(timeout=5)
CallsKill(dry) == ~dry

\* What proc.kill() followed by proc.wait(timeout=5) can do.  kill() raises
\* NoSuchProcess, AccessDenied or ZombieProcess before any signal is sent;
\* otherwise the signal is sent and wait() returns, raises TimeoutExpired, or
\* is broken by a KeyboardInterrupt.
KillOutcomes ==
  {"ok", "NoSuchProcess", "AccessDenied", "ZombieProcess", "TimeoutExpired",
   "KeyboardInterrupt"}

SignalSent(oc) == oc \in {"ok", "TimeoutExpired", "KeyboardInterrupt"}

\* Mutant: the count is incremented before wait(), when the signal is sent.
CountDelta_AtSend(target, dry, oc) ==
  IF target /\ (dry \/ oc \in {"ok", "TimeoutExpired"}) THEN 1 ELSE 0

\* Mutant: the increment sits inside `if not self.dry_run`.
CountDelta_LiveOnly(target, dry, oc) ==
  IF target /\ ~dry /\ oc = "ok" THEN 1 ELSE 0

\* Mutant: the increment sits outside the `if` block.
CountDelta_Dedent(target, dry, oc) ==
  IF dry \/ oc \in {"ok", "none"} THEN 1 ELSE 0

\* killed_count += 1 is the last statement of the `if` block: it is reached
\* for a target when kill() and wait() were skipped (dry run) or both returned.
CountDelta(target, dry, oc) ==
  IF target /\ (dry \/ oc = "ok") THEN 1 ELSE 0

\* Mutant: an interrupt is reported as any other exception.
MainReturn_InterruptAsError(how) ==
  CASE how = "noimport" -> 1
    [] how = "normal" -> 0
    [] how = "interrupt" -> 2
    [] how = "error" -> 2

\* The exit status: sys.exit(1) of the import guard, and main's return values.
MainReturn(how) ==
  CASE how = "noimport" -> 1
    [] how = "normal" -> 0
    [] how = "interrupt" -> 1
    [] how = "error" -> 2

-----------------------------------------------------------------------------
VARIABLES
  psutil_ok,     \* whether `import psutil` succeeds
  dry_run,       \* self.dry_run (--dry-run)
  verbose,       \* self.verbose (--verbose)
  pc,            \* "boot", "sweep" or "exited"
  procs,         \* the records process_iter has yielded so far; the pid of
                 \* procs[i] is i
  verdict,       \* per yielded record: "Target", "Ignored" or "raised"
  outcome,       \* per yielded record: what kill()/wait() did, "none" if
                 \* they were not called
  killed_count,  \* the local killed_count
  counted,       \* pids for which killed_count was incremented
  signalled,     \* pids that were sent the kill signal
  waited,        \* pids on which wait() was called
  out,           \* the lines printed, by kind
  ending,        \* how the invocation ended, "" while it runs
  exit_code,     \* the exit status, -1 while it runs
  run,           \* 1 for the first invocation, 2 for a second one
  replay,        \* the process table the second invocation enumerates
  first_count    \* the count the first invocation returned

vars ==
  <<psutil_ok, dry_run, verbose, pc, procs, verdict, outcome, killed_count,
    counted, signalled, waited, out, ending, exit_code, run, replay,
    first_count>>

Init ==
  /\ psutil_ok \in BOOLEAN
  /\ dry_run \in BOOLEAN
  /\ verbose \in BOOLEAN
  /\ pc = "boot"
  /\ procs = <<>>
  /\ verdict = <<>>
  /\ outcome = <<>>
  /\ killed_count = 0
  /\ counted = {}
  /\ signalled = {}
  /\ waited = {}
  /\ out = <<>>
  /\ ending = ""
  /\ exit_code = -1
  /\ run = 1
  /\ replay = <<>>
  /\ first_count = 0

\* The invocation ends: its status is MainReturn(how).
Exit(how, lines) ==
  /\ pc' = "exited"
  /\ ending' = how
  /\ exit_code' = MainReturn(how)
  /\ out' = out \o lines

\* import psutil fails: the guard prints and calls sys.exit(1).
ImportError ==
  /\ pc = "boot"
  /\ ~psutil_ok
  /\ Exit("noimport", <<"psutil_not_installed">>)
  /\ UNCHANGED <<psutil_ok, dry_run, verbose, procs, verdict, outcome,
                 killed_count, counted, signalled, waited, run, replay,
                 first_count>>

\* main parses the flags, builds the killer and enters the sweep.
Main ==
  /\ pc = "boot"
  /\ psutil_ok
  /\ pc' = "sweep"
  /\ killed_count' = 0
  /\ UNCHANGED <<psutil_ok, dry_run, verbose, procs, verdict, outcome, counted,
                 signalled, waited, out, ending, exit_code, run, replay,
                 first_count>>

\* The records process_iter can yield next.  A second invocation enumerates
\* the process table the first one saw.
Yieldable ==
  IF run = 1
  THEN IF Len(procs) < MaxProcs THEN Records ELSE {}
  ELSE IF Len(procs) < Len(replay) THEN {replay[Len(procs) + 1]} ELSE {}

\* process_iter is exhausted.
Exhausted == IF run = 1 THEN TRUE ELSE Len(procs) = Len(replay)

\* One iteration of the for loop, with main's handlers for what escapes it.
LoopBody ==
  /\ pc = "sweep"
  /\ \E proc \in Yieldable :
       LET pid == Len(procs) + 1
           proc_name == proc.name
           cmdline == CmdlineText(proc.cmdline)
       IN
       /\ procs' = Append(procs, proc)
       /\ IF proc_name = None
          THEN \* proc_name.lower() raises AttributeError, which no handler of
               \* the loop catches: main's `except Exception` returns 2.
               /\ verdict' = Append(verdict, "raised")
               /\ outcome' = Append(outcome, "none")
               /\ Exit("error", <<"script_failed">>)
               /\ UNCHANGED <<killed_count, counted, signalled, waited>>
          ELSE IF ~ShouldKill(Chars(proc_name), cmdline)
          THEN /\ verdict' = Append(verdict, "Ignored")
               /\ outcome' = Append(outcome, "none")
               /\ killed_count' = killed_count + CountDelta(FALSE, dry_run, "none")
               /\ UNCHANGED <<counted, signalled, waited, out, pc, ending,
                              exit_code>>
          ELSE \E oc \in (IF CallsKill(dry_run) THEN KillOutcomes ELSE {"none"}) :
               LET delta == CountDelta(TRUE, dry_run, oc)
                   killing == IF verbose THEN <<"killing">> ELSE <<>>
               IN
               /\ verdict' = Append(verdict, "Target")
               /\ outcome' = Append(outcome, oc)
               /\ signalled' = IF SignalSent(oc) THEN signalled \cup {pid}
                               ELSE signalled
               /\ waited' = IF SignalSent(oc) THEN waited \cup {pid} ELSE waited
               /\ killed_count' = killed_count + delta
               /\ counted' = IF delta > 0 THEN counted \cup {pid} ELSE counted
               /\ IF oc = "KeyboardInterrupt"
                  THEN Exit("interrupt", killing \o <<"interrupted">>)
                  ELSE /\ out' = out \o killing \o
                                 (IF oc = "TimeoutExpired" /\ verbose
                                  THEN <<"did_not_terminate">> ELSE <<>>)
                       /\ UNCHANGED <<pc, ending, exit_code>>
  /\ UNCHANGED <<psutil_ok, dry_run, verbose, run, replay, first_count>>

\* The loop ends: the sweep prints the summary and returns killed_count, and
\* main prints its line and returns 0.
Return ==
  /\ pc = "sweep"
  /\ Exhausted
  /\ Exit("normal",
          <<"summary", IF killed_count > 0 THEN "success" ELSE "none_found">>)
  /\ UNCHANGED <<psutil_ok, dry_run, verbose, procs, verdict, outcome,
                 killed_count, counted, signalled, waited, run, replay,
                 first_count>>

\* Ctrl-C between two iterations: main's `except KeyboardInterrupt` returns 1.
KeyboardInterrupt ==
  /\ pc = "sweep"
  /\ Exit("interrupt", <<"interrupted">>)
  /\ UNCHANGED <<psutil_ok, dry_run, verbose, procs, verdict, outcome,
                 killed_count, counted, signalled, waited, run, replay,
                 first_count>>

Next == ImportError \/ Main \/ LoopBody \/ Return \/ KeyboardInterrupt

Spec == Init /\ [][Next]_vars

-----------------------------------------------------------------------------
\* A dry run followed by a real run of the script over the same process
\* table: the dry run has sent no signal, and nothing else changes the table.

Reinvoke ==
  /\ pc = "exited"
  /\ run = 1
  /\ dry_run
  /\ ending = "normal"
  /\ run' = 2
  /\ replay' = procs
  /\ first_count' = killed_count
  /\ dry_run' = FALSE
  /\ pc' = "boot"
  /\ procs' = <<>>
  /\ verdict' = <<>>
  /\ outcome' = <<>>
  /\ killed_count' = 0
  /\ counted' = {}
  /\ signalled' = {}
  /\ waited' = {}
  /\ out' = <<>>
  /\ ending' = ""
  /\ exit_code' = -1
  /\ UNCHANGED <<psutil_ok, verbose>>

InitPair == Init /\ dry_run

NextPair == Next \/ Reinvoke

SpecPair == InitPair /\ [][NextPair]_vars

-----------------------------------------------------------------------------
\* The predicates of the classification rule, as sets of records.  Each set is
\* written {x : x \in S} so that it is enumerated once.

UpperChar(c) ==
  IF \E k \in 1..26 : LowerAlpha[k] = c
  THEN UpperAlpha[CHOOSE k \in 1..26 : LowerAlpha[k] = c]
  ELSE c

Upper(s) == [k \in 1..Len(s) |-> UpperChar(s[k])]

NamedRecords == {x : x \in {r \in Records : r.name # None}}

\* The name contains the browser token, whatever its letter case.
BrowserNameRecords ==
  {x : x \in
    {r \in NamedRecords : Contains(TOKEN_CHROME, Lower(Chars(r.name)))}}

\* The command line contains the profile marker.
ProfileRecords ==
  {x : x \in
    {r \in Records : Contains(MARKER_PROFILE, CmdlineText(r.cmdline))}}

\* The name contains the runtime-host token, whatever its letter case.
NodeNameRecords ==
  {x : x \in
    {r \in NamedRecords : Contains(TOKEN_NODE, Lower(Chars(r.name)))}}

\* The command line contains one of the two server markers.
ServerMarkerRecords ==
  {x : x \in
    {r \in Records :
       \/ Contains(MARKER_SERVER, CmdlineText(r.cmdline))
       \/ Contains(MARKER_PLAYWRIGHT, CmdlineText(r.cmdline))}}

BrowserTargetRecords == BrowserNameRecords \cap ProfileRecords

ProtectedServerRecords == NodeNameRecords \cap ServerMarkerRecords

TargetRecords == BrowserTargetRecords \ ProtectedServerRecords

\* A process named "node" whose command line contains "mcp-server-playwright"
\* and a "chrome" argument.
NodeServerRecords ==
  {x : x \in
    {r \in Records :
       /\ r.name = "node"
       /\ Contains(MARKER_SERVER, CmdlineText(r.cmdline))
       /\ Contains(TOKEN_CHROME, CmdlineText(r.cmdline))}}

\* The records whose classification by the code is the same after the name and
\* the command line are put in lower or in upper case.
CaseInsensitiveRecords ==
  {x : x \in
    {r \in NamedRecords :
       \A n \in {Lower(Chars(r.name)), Upper(Chars(r.name))} :
         \A c \in {Lower(CmdlineText(r.cmdline)), Upper(CmdlineText(r.cmdline))} :
           /\ ShouldKill(Chars(r.name), CmdlineText(r.cmdline)) = ShouldKill(n, c)
           /\ is_nodejs_server(Chars(r.name), CmdlineText(r.cmdline))
                = is_nodejs_server(n, c)}}

\* The records whose classification by the code is the same after the name is
\* put in lower or in upper case.
NameCaseInsensitiveRecords ==
  {x : x \in
    {r \in NamedRecords :
       LET c == CmdlineText(r.cmdline) IN
       \A n \in {Lower(Chars(r.name)), Upper(Chars(r.name))} :
         /\ ShouldKill(Chars(r.name), c) = ShouldKill(n, c)
         /\ is_nodejs_server(Chars(r.name), c) = is_nodejs_server(n, c)
         /\ is_playwright_chrome(Chars(r.name), c) = is_playwright_chrome(n, c)}}

Pids == 1..Len(procs)

BrowserTarget(i) == procs[i] \in BrowserTargetRecords

ProtectedServer(i) == procs[i] \in ProtectedServerRecords

Target(i) == procs[i] \in TargetRecords

Targets == {i \in Pids : Target(i)}

Finished == pc = "exited" /\ ending = "normal"

-----------------------------------------------------------------------------
\* C1: a process that matches both the browser-target and the protected-server
\* predicate is never sent the kill signal and never counted; nor is a process
\* named "node" whose command line contains "mcp-server-playwright", whatever
\* its other arguments contain.
C1_ProtectedNeverKilled ==
  \A i \in Pids :
    \/ BrowserTarget(i) /\ ProtectedServer(i)
    \/ procs[i] \in NodeServerRecords
    => i \notin signalled /\ i \notin counted /\ i \notin waited

\* A real sweep has completed over a process matching both predicates and over
\* the "node" server process with a "chrome" argument.
C1_Witness ==
  /\ Finished
  /\ ~dry_run
  /\ \E i \in Pids : BrowserTarget(i) /\ ProtectedServer(i)
  /\ \E i \in Pids : procs[i] \in NodeServerRecords

\* C2: every process signalled or counted is a Target (browser-target and not
\* protected-server); a process whose name lacks the browser token, or whose
\* command line lacks the profile marker, is never signalled and never counted.
C2_OnlyTargetsKilled ==
  /\ signalled \cup counted \cup waited \subseteq Targets
  /\ \A i \in Pids :
       \/ procs[i] \notin BrowserNameRecords
       \/ procs[i] \notin ProfileRecords
       => i \notin signalled /\ i \notin counted

\* A real sweep has signalled one process and passed over a "chrome" without
\* the profile marker.
C2_Witness ==
  /\ Finished
  /\ ~dry_run
  /\ signalled # {}
  /\ \E i \in Pids :
       /\ procs[i].name = "chrome"
       /\ procs[i] \notin ProfileRecords
       /\ i \notin signalled

\* C3: in a dry run no kill and no wait is performed on any process, while the
\* Targets are classified and counted.
C3_DryRunNoSignal ==
  (dry_run /\ run = 1) =>
    /\ signalled = {}
    /\ waited = {}
    /\ \A i \in Pids : outcome[i] = "none"
    /\ counted = Targets
    /\ killed_count = Cardinality(Targets)

\* A verbose and a quiet dry run each complete having counted two Targets.
C3_Witness ==
  /\ Finished
  /\ dry_run
  /\ killed_count = 2
  /\ Len(out) > 2 \/ ~verbose

\* C4 as stated: the count a real sweep returns is the number of Targets that
\* were sent the signal, whether or not they exited within the wait.
C4_CountAtSignalSend ==
  (Finished /\ ~dry_run) => killed_count = Cardinality(signalled)

\* C4 amended: the count a real sweep returns is the number of Targets for
\* which kill() and wait() both returned; a Target that is signalled but times
\* out in the wait is not counted.
C4_CountAfterWait ==
  (Finished /\ ~dry_run) =>
    /\ killed_count = Cardinality({i \in signalled : outcome[i] = "ok"})
    /\ \A i \in Pids :
         outcome[i] = "TimeoutExpired" => i \in signalled /\ i \notin counted

\* A real sweep has completed with one Target that exited and one that timed
\* out.
C4_Witness ==
  /\ Finished
  /\ ~dry_run
  /\ \E i \in Pids : outcome[i] = "ok"
  /\ \E i \in Pids : outcome[i] = "TimeoutExpired"

\* C5 as stated: a real sweep over the process table of a dry run returns the
\* count the dry run returned, whatever kill() and wait() do.
C5_DryRunLaw ==
  (Finished /\ run = 2) => killed_count = first_count

\* C5 amended: a real sweep over the process table of a dry run returns the
\* dry run's count less the Targets whose kill() or wait() raised; the counts
\* are equal exactly when every Target's kill() and wait() return.
C5_DryRunLawAmended ==
  (Finished /\ run = 2) =>
    /\ first_count = Cardinality(Targets)
    /\ killed_count =
         first_count - Cardinality({i \in Targets : outcome[i] # "ok"})
    /\ killed_count = first_count <=> \A i \in Targets : outcome[i] = "ok"

\* The real sweep after a dry run has returned the same positive count.
C5_Witness ==
  /\ Finished
  /\ run = 2
  /\ first_count > 0
  /\ killed_count = first_count

Raised == \E i \in Pids : verdict[i] = "raised"

Interrupted == Len(out) > 0 /\ out[Len(out)] = "interrupted"

\* C6 as stated: status 0 on normal completion, 1 only on an interrupt, and 2
\* for every other error, a missing psutil included.
C6_ExitStatus ==
  pc = "exited" =>
    /\ exit_code = 1 => Interrupted
    /\ ~psutil_ok => exit_code = 2
    /\ Raised => exit_code = 2
    /\ (psutil_ok /\ ~Raised /\ ~Interrupted) => exit_code = 0

\* C6 amended: status 0 on normal completion, 1 on an interrupt and when
\* psutil cannot be imported, 2 for an exception that escapes the sweep.
C6_ExitStatusAmended ==
  pc = "exited" =>
    /\ exit_code = 1 <=> (Interrupted \/ ~psutil_ok)
    /\ exit_code = 2 <=> Raised
    /\ exit_code = 0 <=> (psutil_ok /\ ~Raised /\ ~Interrupted)
    /\ exit_code = 0 => Exhausted /\ \E k \in 1..Len(out) : out[k] = "summary"

\* The import guard has ended an invocation with status 1.
C6_Witness ==
  /\ pc = "exited"
  /\ ~psutil_ok
  /\ exit_code = 1

\* C7: vanished, denied, zombie and timed-out processes never abort the
\* sweep: an invocation that is not interrupted completes normally with a
\* count that leaves those Targets out.
C7_SweepCompletes ==
  (pc = "exited" /\ psutil_ok /\ ~Interrupted) =>
    /\ ending = "normal"
    /\ exit_code = 0
    /\ killed_count >= 0
    /\ \A i \in Pids :
         outcome[i] \in {"NoSuchProcess", "AccessDenied", "ZombieProcess"}
           => i \notin counted

\* C8: the running count never exceeds the number of Targets examined so far,
\* so the returned count is at most the number of Targets in the snapshot.
C8_CountAtMostTargets ==
  /\ killed_count = Cardinality(counted)
  /\ killed_count <= Cardinality(Targets)
  /\ counted \subseteq Targets

\* A real sweep has completed with a positive count below the number of
\* Targets.
C8_Witness ==
  /\ Finished
  /\ ~dry_run
  /\ killed_count > 0
  /\ killed_count < Cardinality(Targets)

\* C9 as stated: changing the letter case of the name or of the command line
\* never changes the classification.
C9_CaseInsensitive ==
  \A i \in Pids :
    procs[i].name # None =>
      /\ procs[i] \in CaseInsensitiveRecords
      /\ (verdict[i] = "Target") = Target(i)

\* C9 amended: the two name checks are case-insensitive and the three command
\* line checks case-sensitive: changing the letter case of the name never
\* changes the classification.
C9_NameCaseInsensitive ==
  \A i \in Pids :
    procs[i].name # None =>
      /\ procs[i] \in NameCaseInsensitiveRecords
      /\ (verdict[i] = "Target") = Target(i)

\* A name with capitals has been classified Target, and one vetoed.
C9_Witness ==
  /\ \E i \in Pids : procs[i].name = "Google Chrome" /\ verdict[i] = "Target"
  /\ \E i \in Pids :
       /\ procs[i].name = "Chrome-Node"
       /\ BrowserTarget(i)
       /\ ProtectedServer(i)
       /\ verdict[i] = "Ignored"

\* C10: every yielded record, one whose name or command line is None
\* included, is classified without raising, and equal records are classified
\* alike.
C10_ClassificationTotal ==
  /\ \A i \in Pids : verdict[i] \in {"Target", "Ignored"}
  /\ \A i, j \in Pids : procs[i] = procs[j] => verdict[i] = verdict[j]

====
